---------------------------- MODULE Spec2Model ----------------------------
(***************************************************************************)
(* A model of gpus.go, the GPU collector of the Slurm exporter.           *)
(*                                                                         *)
(* Text is a sequence of one-character strings, so that strings.Split,    *)
(* strings.Trim, strings.Fields, strings.HasPrefix and strconv.ParseFloat *)
(* are computed on characters as the Go code computes them.  A float64 is *)
(* a record: a reduced fraction, or one of NaN, +Inf, -Inf.               *)
(***************************************************************************)
EXTENDS Integers, Sequences, FiniteSets, Bags, TLC

(***************************************************************************)
(* Bounds of the model.                                                    *)
(***************************************************************************)
\* A command's output holds lines and tokens; its size is the number of
\* its lines plus the number of its tokens.
MaxSize == 4
\* The number of Collect calls the hosting registry may run at once.
NumCollectors == 2

(***************************************************************************)
(* The state: the calls of Collect that the registry runs, one per scrape  *)
(* in flight.                                                              *)
(***************************************************************************)
Collectors == 1..NumCollectors
Commands == {"sinfo", "squeue"}
Descs == <<"slurm_gpus_alloc", "slurm_gpus_idle", "slurm_gpus_total",
           "slurm_gpus_utilization">>

VARIABLES
    alive,     \* the exporter process runs: no log.Fatal, no panic yet
    pc,        \* where each Collect call stands
    child,     \* the child process whose output Execute last returned
    out,       \* what Execute returned to the parser that called it
    totals,    \* ParseGPUsMetrics: totals
    alloc,     \* ParseGPUsMetrics: alloc
    cm,        \* Collect: cm
    sent,      \* the metrics the call has sent on ch, a bag
    execs      \* the children the call has started, per command

vars == <<alive, pc, child, out, totals, alloc, cm, sent, execs>>

(***************************************************************************)
(* float64                                                                 *)
(***************************************************************************)
Abs(i) == IF i < 0 THEN -i ELSE i

RECURSIVE Gcd(_, _)
Gcd(a, b) == IF b = 0 THEN a ELSE Gcd(b, a % b)

\* The float64 whose value is the fraction n/d, d # 0.
Frac(n, d) ==
    LET g == Gcd(Abs(n), Abs(d))
        s == IF d < 0 THEN -1 ELSE 1
    IN  [k |-> "fin", n |-> (s * n) \div g, d |-> (s * d) \div g]

Fin(i) == [k |-> "fin", n |-> i, d |-> 1]
NaN == [k |-> "nan", n |-> 0, d |-> 1]
PosInf == [k |-> "inf", n |-> 1, d |-> 1]
NegInf == [k |-> "inf", n |-> -1, d |-> 1]
Zero == Fin(0)

IsFinite(x) == x.k = "fin"
FSign(x) == IF x.n > 0 THEN 1 ELSE IF x.n < 0 THEN -1 ELSE 0
FNeg(x) == [x EXCEPT !.n = -x.n]

\* x + y of float64.
FAdd(x, y) ==
    IF x.k = "nan" \/ y.k = "nan" THEN NaN
    ELSE IF x.k = "inf" /\ y.k = "inf" THEN (IF x.n = y.n THEN x ELSE NaN)
    ELSE IF x.k = "inf" THEN x
    ELSE IF y.k = "inf" THEN y
    ELSE Frac(x.n * y.d + y.n * x.d, x.d * y.d)

\* x - y of float64.
FSub(x, y) == FAdd(x, FNeg(y))

\* x / y of float64.  A zero that a sum of counts produces is +0.
FDiv(x, y) ==
    IF x.k = "nan" \/ y.k = "nan" THEN NaN
    ELSE IF x.k = "inf" /\ y.k = "inf" THEN NaN
    ELSE IF x.k = "inf" THEN (IF FSign(y) < 0 THEN FNeg(x) ELSE x)
    ELSE IF y.k = "inf" THEN Zero
    ELSE IF y.n = 0 THEN (IF x.n = 0 THEN NaN ELSE IF x.n > 0 THEN PosInf ELSE NegInf)
    ELSE Frac(x.n * y.d, x.d * y.n)

\* x >= y of float64 (false when either is NaN).
FGeq(x, y) ==
    /\ x.k # "nan" /\ y.k # "nan"
    /\ IF x.k = "inf" THEN (x.n > 0 \/ (y.k = "inf" /\ y.n < 0))
       ELSE IF y.k = "inf" THEN y.n < 0
       ELSE x.n * y.d >= y.n * x.d

FGt(x, y) == FGeq(x, y) /\ x # y

(***************************************************************************)
(* package strings                                                         *)
(***************************************************************************)
Quote == "\""
Newline == "\n"
Whitespace == {" ", "\t"}
Digits == <<"0", "1", "2", "3", "4", "5", "6", "7", "8", "9">>

RECURSIVE SplitFrom(_, _, _, _)
SplitFrom(s, sep, i, cur) ==
    IF i > Len(s) THEN <<cur>>
    ELSE IF s[i] = sep THEN <<cur>> \o SplitFrom(s, sep, i + 1, <<>>)
    ELSE SplitFrom(s, sep, i + 1, Append(cur, s[i]))

\* strings.Split(s, sep) for a one-character separator.
Split(s, sep) == SplitFrom(s, sep, 1, <<>>)

RECURSIVE TrimLeft(_, _)
TrimLeft(s, c) == IF s # <<>> /\ Head(s) = c THEN TrimLeft(Tail(s), c) ELSE s

RECURSIVE TrimRight(_, _)
TrimRight(s, c) ==
    IF s # <<>> /\ s[Len(s)] = c THEN TrimRight(SubSeq(s, 1, Len(s) - 1), c) ELSE s

\* strings.Trim(s, cutset) for a one-character cutset.
Trim(s, c) == TrimRight(TrimLeft(s, c), c)

RECURSIVE FieldsFrom(_, _, _)
FieldsFrom(s, i, cur) ==
    IF i > Len(s) THEN (IF cur = <<>> THEN <<>> ELSE <<cur>>)
    ELSE IF s[i] \in Whitespace
         THEN (IF cur = <<>> THEN <<>> ELSE <<cur>>) \o FieldsFrom(s, i + 1, <<>>)
    ELSE FieldsFrom(s, i + 1, Append(cur, s[i]))

\* strings.Fields(s).
Fields(s) == FieldsFrom(s, 1, <<>>)

\* strings.HasPrefix(s, prefix).
HasPrefix(s, prefix) ==
    Len(s) >= Len(prefix) /\ SubSeq(s, 1, Len(prefix)) = prefix

\* strings.TrimPrefix(s, prefix).
TrimPrefix(s, prefix) ==
    IF HasPrefix(s, prefix) THEN SubSeq(s, Len(prefix) + 1, Len(s)) ELSE s

(***************************************************************************)
(* package strconv                                                         *)
(***************************************************************************)
DigitValue(c) == (CHOOSE i \in 1..10 : Digits[i] = c) - 1
IsDigit(c) == \E i \in 1..10 : Digits[i] = c

RECURSIVE DecValue(_, _)
DecValue(s, acc) ==
    IF s = <<>> THEN acc ELSE DecValue(Tail(s), 10 * acc + DigitValue(Head(s)))

\* Mutant: text that is not a number parses to NaN.
ParseFloat_NaNOnError(s) ==
    LET signed == s # <<>> /\ Head(s) \in {"+", "-"}
        body == IF signed THEN Tail(s) ELSE s
        neg == signed /\ Head(s) = "-"
    IN  IF body # <<>> /\ \A i \in 1..Len(body) : IsDigit(body[i])
        THEN Fin(IF neg THEN -DecValue(body, 0) ELSE DecValue(body, 0))
        ELSE NaN

\* The value strconv.ParseFloat(s, 64) returns, its error dropped as the
\* callers drop it: an optionally signed decimal integer, inf, infinity or
\* nan parses to its value, any other text is a syntax error and gives 0.
\* Fractions, exponents and hexadecimal forms are not among the outputs the
\* model enumerates.
ParseFloat(s) ==
    LET signed == s # <<>> /\ Head(s) \in {"+", "-"}
        body == IF signed THEN Tail(s) ELSE s
        neg == signed /\ Head(s) = "-"
    IN  IF body # <<>> /\ \A i \in 1..Len(body) : IsDigit(body[i])
        THEN Fin(IF neg THEN -DecValue(body, 0) ELSE DecValue(body, 0))
        ELSE IF body \in {<<"i", "n", "f">>, <<"i", "n", "f", "i", "n", "i", "t", "y">>}
        THEN (IF neg THEN NegInf ELSE PosInf)
        ELSE IF s = <<"n", "a", "n">> THEN NaN
        ELSE Zero

(***************************************************************************)
(* map[string]float64                                                      *)
(***************************************************************************)
\* Mutant: the map is a package-level variable that the calls share.
MakeMap_Shared ==
    LET holders == {q \in Collectors : DOMAIN totals[q] # {}}
    IN  IF holders = {} THEN <<>> ELSE totals[CHOOSE q \in holders : TRUE]

\* make(map[string]float64): a new map with no key.
MakeMap == <<>>

\* m[k]: the value of a missing key is the zero value.
MapGet(m, k) == IF k \in DOMAIN m THEN m[k] ELSE Zero

\* Mutant: m[k] = c.
MapAdd_Assign(m, k, c) == [x \in (DOMAIN m) \cup {k} |-> IF x = k THEN c ELSE m[x]]

\* m[k] += c.
MapAdd(m, k, c) ==
    [x \in (DOMAIN m) \cup {k} |-> IF x = k THEN FAdd(MapGet(m, k), c) ELSE m[x]]

\* What a parser ends with: the map it returns, or a run-time panic (an
\* index out of range) that unwinds it.
Returned(m) == [panic |-> FALSE, map |-> m]
Panicked == [panic |-> TRUE, map |-> <<>>]

(***************************************************************************)
(* ParseAllocatedGPUs                                                      *)
(***************************************************************************)
GresGpuPrefix == <<"g", "r", "e", "s", "/", "g", "p", "u", ":">>
GpuPrefix == <<"g", "p", "u", ":">>

\* The body of the loop over the resources of a line (gpus.go 60-67).
AllocatedResource(resource, r) ==
    IF r.panic THEN r
    ELSE IF HasPrefix(resource, GresGpuPrefix)
    THEN LET descriptor == TrimPrefix(resource, GresGpuPrefix)
             values == Split(descriptor, "=")
         IN  IF Len(values) < 2 THEN Panicked
             ELSE Returned(MapAdd(r.map, values[1], ParseFloat(values[2])))
    ELSE r

RECURSIVE AllocatedResources(_, _)
AllocatedResources(resources, r) ==
    IF resources = <<>> THEN r
    ELSE AllocatedResources(Tail(resources), AllocatedResource(Head(resources), r))

\* The body of the loop over the lines of the output (gpus.go 53-68).
AllocatedLine(line, r) ==
    IF r.panic \/ Len(line) = 0 THEN r
    ELSE AllocatedResources(Split(Trim(line, Quote), ","), r)

RECURSIVE AllocatedLines(_, _)
AllocatedLines(lines, r) ==
    IF lines = <<>> THEN r
    ELSE AllocatedLines(Tail(lines), AllocatedLine(Head(lines), r))

\* ParseAllocatedGPUs, given what Execute("squeue", args) returned.
ParseAllocatedGPUs(output) ==
    IF Len(output) = 0 THEN Returned(<<>>)
    ELSE AllocatedLines(Split(output, Newline), Returned(MakeMap))

(***************************************************************************)
(* ParseTotalGPUs                                                          *)
(***************************************************************************)
\* The body of the loop over the resources of a node (gpus.go 93-101).
TotalResource(resource, r) ==
    IF r.panic THEN r
    ELSE IF HasPrefix(resource, GpuPrefix)
    THEN LET segments == Split(resource, ":")
         IN  IF Len(segments) < 3 THEN Panicked
             ELSE LET descriptor == Split(segments[3], "(")[1]
                      node_gpus == ParseFloat(descriptor)
                      type_gpu == segments[2]
                  IN  Returned(MapAdd(r.map, type_gpu, node_gpus))
    ELSE r

RECURSIVE TotalResources(_, _)
TotalResources(resources, r) ==
    IF resources = <<>> THEN r
    ELSE TotalResources(Tail(resources), TotalResource(Head(resources), r))

\* The body of the loop over the lines of the output (gpus.go 85-102).
TotalLine(line, r) ==
    IF r.panic \/ Len(line) = 0 THEN r
    ELSE LET fields == Fields(Trim(line, Quote))
         IN  IF Len(fields) < 2 THEN Panicked
             ELSE TotalResources(Split(fields[2], ","), r)

RECURSIVE TotalLines(_, _)
TotalLines(lines, r) ==
    IF lines = <<>> THEN r
    ELSE TotalLines(Tail(lines), TotalLine(Head(lines), r))

\* Mutant: an empty output is an error.
ParseTotalGPUs_EmptyIsError(output) ==
    IF Len(output) = 0 THEN Panicked
    ELSE TotalLines(Split(output, Newline), Returned(MakeMap))

\* ParseTotalGPUs, given what Execute("sinfo", args) returned.
ParseTotalGPUs(output) ==
    IF Len(output) = 0 THEN Returned(<<>>)
    ELSE TotalLines(Split(output, Newline), Returned(MakeMap))

(***************************************************************************)
(* ParseGPUsMetrics                                                        *)
(***************************************************************************)
\* Mutant: idle = alloc - total.
GPUsMetrics_IdleSwapped(tot, alc, gpu_type) ==
    [alloc |-> MapGet(alc, gpu_type),
     idle |-> FSub(MapGet(alc, gpu_type), MapGet(tot, gpu_type)),
     total |-> MapGet(tot, gpu_type),
     utilization |-> FDiv(MapGet(alc, gpu_type), MapGet(tot, gpu_type))]

\* &GPUsMetrics{...} as the loop body fills it (gpus.go 129-134).
GPUsMetrics(tot, alc, gpu_type) ==
    [alloc |-> MapGet(alc, gpu_type),
     idle |-> FSub(MapGet(tot, gpu_type), MapGet(alc, gpu_type)),
     total |-> MapGet(tot, gpu_type),
     utilization |-> FDiv(MapGet(alc, gpu_type), MapGet(tot, gpu_type))]

\* Mutant: the loop ranges over the keys of both maps.
MetricsKeys_Union(tot, alc) == (DOMAIN tot) \cup (DOMAIN alc)

\* The keys the loop of ParseGPUsMetrics ranges over (gpus.go 128).
MetricsKeys(tot, alc) == DOMAIN tot

\* The map ParseGPUsMetrics returns, given the two parsers' maps.
ParseGPUsMetrics(tot, alc) ==
    [gpu_type \in MetricsKeys(tot, alc) |-> GPUsMetrics(tot, alc, gpu_type)]

(***************************************************************************)
(* The child processes: what squeue and sinfo print.                       *)
(*                                                                         *)
(* An output is a sequence of lines, a line a sequence of tokens of the    *)
(* command's catalog.  A catalog entry gives the text of a token and what  *)
(* the token says: whether it is a typed GPU descriptor, its type and its  *)
(* count (zero when the count is not a number), and whether it lacks the   *)
(* part the parser indexes.                                                *)
(***************************************************************************)
A100 == <<"a", "1", "0", "0">>
K80 == <<"k", "8", "0">>
NodeName == <<"n", "o", "d", "e", "0", "1">>
Malformed == <<"x", "y", "z">>

\* gres/gpu:<type>=<count>
GresToken(type, count) == GresGpuPrefix \o type \o <<"=">> \o count
\* gpu:<type>:<count><suffix>
GpuToken(type, count, suffix) == GpuPrefix \o type \o <<":">> \o count \o suffix

Socket == <<"(", "S", ":", "0", ")">>

\* A token the parser passes over.
Other(text) == [text |-> text, kind |-> "other", type |-> <<>>, count |-> Zero]
\* A typed GPU descriptor with a numeric count.
Typed(text, type, count) == [text |-> text, kind |-> "typed", type |-> type, count |-> count]
\* A typed GPU descriptor whose count is not a number.
BadCount(text, type) == [text |-> text, kind |-> "malformed", type |-> type, count |-> Zero]
\* A token with the GPU prefix and without the part that holds the count.
Short(text) == [text |-> text, kind |-> "short", type |-> <<>>, count |-> Zero]

\* Tokens of a line of squeue --Format=tres-alloc.
SqueueCatalog ==
    << Typed(GresToken(A100, <<"2">>), A100, Fin(2)),
       Typed(GresToken(K80, <<"1">>), K80, Fin(1)),
       Other(<<"g", "r", "e", "s", "/", "g", "p", "u", "=", "2">>),
       BadCount(GresToken(A100, Malformed), A100),
       Typed(GresToken(K80, <<"-", "1">>), K80, Fin(-1)),
       Short(GresGpuPrefix \o A100) >>

\* Tokens of the generic-resource field of a line of sinfo.
SinfoCatalog ==
    << Typed(GpuToken(A100, <<"4">>, Socket), A100, Fin(4)),
       Typed(GpuToken(K80, <<"2">>, <<>>), K80, Fin(2)),
       Other(<<"(", "n", "u", "l", "l", ")">>),
       BadCount(GpuToken(A100, Malformed, Socket), A100),
       Short(GpuPrefix \o <<"4">>) >>

RECURSIVE Join(_, _)
Join(texts, sep) ==
    IF texts = <<>> THEN <<>>
    ELSE IF Len(texts) = 1 THEN texts[1]
    ELSE texts[1] \o <<sep>> \o Join(Tail(texts), sep)

TokenTexts(catalog, line) == [i \in 1..Len(line) |-> catalog[line[i]].text]

Wrap(quoted, text) == IF quoted THEN <<Quote>> \o text \o <<Quote>> ELSE text

\* A line of squeue: the job's resources, comma-separated.  A job line
\* with no token is a blank line.
SqueueLine(line, quoted) ==
    Wrap(quoted, Join(TokenTexts(SqueueCatalog, line), ",")) \o <<Newline>>

\* A line of sinfo: the node's name, then its resources, comma-separated.
\* A node line with no token holds the name alone.
SinfoLine(line, quoted) ==
    Wrap(quoted, IF line = <<>> THEN NodeName
                 ELSE NodeName \o <<" ">> \o Join(TokenTexts(SinfoCatalog, line), ","))
      \o <<Newline>>

RECURSIVE Concat(_)
Concat(texts) == IF texts = <<>> THEN <<>> ELSE Head(texts) \o Concat(Tail(texts))

\* The bytes a child writes to its standard output.
Stdout(cmd, c) ==
    Concat([i \in 1..Len(c.lines) |->
              IF cmd = "sinfo" THEN SinfoLine(c.lines[i], c.quoted)
              ELSE SqueueLine(c.lines[i], c.quoted)])

\* The lines of exactly k - 1 tokens over a catalog of n entries.
LinesOfSize(n, k) == [1..(k - 1) -> 1..n]

RECURSIVE OutputsOfSize(_, _)
OutputsOfSize(n, s) ==
    IF s = 0 THEN {<<>>}
    ELSE UNION {{<<line>> \o rest : line \in LinesOfSize(n, k), rest \in OutputsOfSize(n, s - k)}
                  : k \in 1..s}

\* Every output of size at most MaxSize, with and without quotes.
Children(n) ==
    {[lines |-> ls, quoted |-> q] : ls \in UNION {OutputsOfSize(n, s) : s \in 0..MaxSize},
                                    q \in BOOLEAN}

SqueueChildren == Children(Len(SqueueCatalog))
SinfoChildren == Children(Len(SinfoCatalog))

\* Execute and then the parser, for a child: the output Execute returns
\* and what the parser that called it ends with.
RunSinfo(c) ==
    LET output == Stdout("sinfo", c)
    IN  [child |-> c, output |-> output, r |-> ParseTotalGPUs(output)]
RunSqueue(c) ==
    LET output == Stdout("squeue", c)
    IN  [child |-> c, output |-> output, r |-> ParseAllocatedGPUs(output)]

SinfoRuns == {RunSinfo(c) : c \in SinfoChildren}
SqueueRuns == {RunSqueue(c) : c \in SqueueChildren}

\* The outputs the concurrent specification draws from: no line, one node
\* with gpu:a100:4(S:0), two nodes with gpu:k80:2 each, a node line that
\* holds the name alone.
SinfoSamples ==
    { [lines |-> <<>>, quoted |-> FALSE],
      [lines |-> << <<1>> >>, quoted |-> FALSE],
      [lines |-> << <<2>>, <<2>> >>, quoted |-> TRUE],
      [lines |-> << <<>> >>, quoted |-> FALSE] }

\* No line, one job with gres/gpu:a100=2,gres/gpu=2, one job with
\* gres/gpu:k80=1.
SqueueSamples ==
    { [lines |-> <<>>, quoted |-> FALSE],
      [lines |-> << <<1, 3>> >>, quoted |-> TRUE],
      [lines |-> << <<2>> >>, quoted |-> FALSE] }

SinfoSampleRuns == {RunSinfo(c) : c \in SinfoSamples}
SqueueSampleRuns == {RunSqueue(c) : c \in SqueueSamples}

(***************************************************************************)
(* The collector                                                           *)
(***************************************************************************)
NoChild == [lines |-> <<>>, quoted |-> FALSE]
NoExecs == [c \in Commands |-> 0]

Init ==
    /\ alive = TRUE
    /\ pc = [p \in Collectors |-> "idle"]
    /\ child = [p \in Collectors |-> NoChild]
    /\ out = [p \in Collectors |-> <<>>]
    /\ totals = [p \in Collectors |-> <<>>]
    /\ alloc = [p \in Collectors |-> <<>>]
    /\ cm = [p \in Collectors |-> <<>>]
    /\ sent = [p \in Collectors |-> EmptyBag]
    /\ execs = [p \in Collectors |-> NoExecs]

\* The command the call is about to run, or waits for.
CommandAt(state) == IF state \in {"sinfo", "sinfo_wait"} THEN "sinfo" ELSE "squeue"

\* The registry calls Collect, which calls GPUsGetMetrics, ParseGPUsMetrics
\* and ParseTotalGPUs, up to its call of Execute.
Collect(p) ==
    /\ alive
    /\ pc[p] = "idle"
    /\ pc' = [pc EXCEPT ![p] = "sinfo"]
    /\ UNCHANGED <<alive, child, out, totals, alloc, cm, sent, execs>>

\* Execute: cmd.StdoutPipe and cmd.Start succeed; the child runs, and the
\* call blocks reading its output.
ExecuteStart(p) ==
    /\ alive
    /\ pc[p] \in {"sinfo", "squeue"}
    /\ execs' = [execs EXCEPT ![p][CommandAt(pc[p])] = @ + 1]
    /\ pc' = [pc EXCEPT ![p] = IF pc[p] = "sinfo" THEN "sinfo_wait" ELSE "squeue_wait"]
    /\ UNCHANGED <<alive, child, out, totals, alloc, cm, sent>>

\* Execute: cmd.StdoutPipe or cmd.Start returns an error; log.Fatal ends
\* the process.
ExecuteStartFails(p) ==
    /\ alive
    /\ pc[p] \in {"sinfo", "squeue"}
    /\ alive' = FALSE
    /\ pc' = [pc EXCEPT ![p] = "fatal"]
    /\ UNCHANGED <<child, out, totals, alloc, cm, sent, execs>>

\* Mutant: the error of cmd.Wait ends the call and not the process.
ExecuteWaitFails_CallOnly(p) ==
    /\ alive
    /\ pc[p] \in {"sinfo_wait", "squeue_wait"}
    /\ pc' = [pc EXCEPT ![p] = "fatal"]
    /\ UNCHANGED <<alive, child, out, totals, alloc, cm, sent, execs>>

\* Execute: the output is read, cmd.Wait returns an error (the child exited
\* with a non-zero status); log.Fatal ends the process.
ExecuteWaitFails(p) ==
    /\ alive
    /\ pc[p] \in {"sinfo_wait", "squeue_wait"}
    /\ alive' = FALSE
    /\ pc' = [pc EXCEPT ![p] = "fatal"]
    /\ UNCHANGED <<child, out, totals, alloc, cm, sent, execs>>

\* The child sinfo has printed its output and exited, as in one of runs:
\* Execute returns the output, ParseTotalGPUs parses it and returns the map
\* to ParseGPUsMetrics.  A panic unwinds the call and ends the process:
\* gpus.go recovers from none, and Collect runs on a goroutine of its own.
ParseTotalGPUsReturns(p, runs) ==
    /\ alive
    /\ pc[p] = "sinfo_wait"
    /\ \E run \in runs :
          LET r == run.r
          IN  /\ child' = [child EXCEPT ![p] = run.child]
              /\ out' = [out EXCEPT ![p] = run.output]
              /\ IF r.panic
                 THEN /\ alive' = FALSE
                      /\ pc' = [pc EXCEPT ![p] = "panic"]
                      /\ UNCHANGED totals
                 ELSE /\ totals' = [totals EXCEPT ![p] = r.map]
                      /\ pc' = [pc EXCEPT ![p] = "totals"]
                      /\ UNCHANGED alive
    /\ UNCHANGED <<alloc, cm, sent, execs>>

\* ParseGPUsMetrics calls ParseAllocatedGPUs, up to its call of Execute.
\* What ParseTotalGPUs held is out of scope; totals is kept.
ParseAllocatedGPUsCalled(p) ==
    /\ alive
    /\ pc[p] = "totals"
    /\ child' = [child EXCEPT ![p] = NoChild]
    /\ out' = [out EXCEPT ![p] = <<>>]
    /\ pc' = [pc EXCEPT ![p] = "squeue"]
    /\ UNCHANGED <<alive, totals, alloc, cm, sent, execs>>

\* The child squeue has printed its output and exited, as in one of runs:
\* Execute returns the output, ParseAllocatedGPUs parses it, and
\* ParseGPUsMetrics joins the two maps; Collect holds the result.
ParseGPUsMetricsReturns(p, runs) ==
    /\ alive
    /\ pc[p] = "squeue_wait"
    /\ \E run \in runs :
          LET r == run.r
          IN  /\ child' = [child EXCEPT ![p] = run.child]
              /\ out' = [out EXCEPT ![p] = run.output]
              /\ IF r.panic
                 THEN /\ alive' = FALSE
                      /\ pc' = [pc EXCEPT ![p] = "panic"]
                      /\ UNCHANGED <<alloc, cm>>
                 ELSE /\ alloc' = [alloc EXCEPT ![p] = r.map]
                      /\ cm' = [cm EXCEPT ![p] = ParseGPUsMetrics(totals[p], r.map)]
                      /\ pc' = [pc EXCEPT ![p] = "emit"]
                      /\ UNCHANGED alive
    /\ UNCHANGED <<totals, sent, execs>>

\* prometheus.MustNewConstMetric(desc, GaugeValue, value, gpu_type).
MustNewConstMetric(desc, value, gpu_type) ==
    [desc |-> desc, value |-> value, type |-> gpu_type]

\* Mutant: the idle value is sent with the descriptor of alloc.
CollectSends_IdleAsAlloc(m, gpu_type) ==
    << MustNewConstMetric(Descs[1], m[gpu_type].alloc, gpu_type),
       MustNewConstMetric(Descs[1], m[gpu_type].idle, gpu_type),
       MustNewConstMetric(Descs[3], m[gpu_type].total, gpu_type),
       MustNewConstMetric(Descs[4], m[gpu_type].utilization, gpu_type) >>

\* The four sends of the body of the loop of Collect (gpus.go 191-194).
CollectSends(m, gpu_type) ==
    << MustNewConstMetric(Descs[1], m[gpu_type].alloc, gpu_type),
       MustNewConstMetric(Descs[2], m[gpu_type].idle, gpu_type),
       MustNewConstMetric(Descs[3], m[gpu_type].total, gpu_type),
       MustNewConstMetric(Descs[4], m[gpu_type].utilization, gpu_type) >>

RECURSIVE SeqToBag(_)
SeqToBag(s) == IF s = <<>> THEN EmptyBag ELSE SetToBag({Head(s)}) (+) SeqToBag(Tail(s))

RECURSIVE CollectLoop(_, _)
CollectLoop(m, types) ==
    IF types = {} THEN EmptyBag
    ELSE LET gpu_type == CHOOSE t \in types : TRUE
         IN  SeqToBag(CollectSends(m, gpu_type)) (+) CollectLoop(m, types \ {gpu_type})

\* The loop of Collect: every metric of cm is sent on ch.  What
\* ParseGPUsMetrics and ParseAllocatedGPUs held is out of scope.
CollectEmits(p) ==
    /\ alive
    /\ pc[p] = "emit"
    /\ sent' = [sent EXCEPT ![p] = CollectLoop(cm[p], DOMAIN cm[p])]
    /\ pc' = [pc EXCEPT ![p] = "done"]
    /\ child' = [child EXCEPT ![p] = NoChild]
    /\ out' = [out EXCEPT ![p] = <<>>]
    /\ totals' = [totals EXCEPT ![p] = <<>>]
    /\ alloc' = [alloc EXCEPT ![p] = <<>>]
    /\ UNCHANGED <<alive, cm, execs>>

\* Collect returns; the registry has taken the metrics from ch.
CollectReturns(p) ==
    /\ alive
    /\ pc[p] = "done"
    /\ pc' = [pc EXCEPT ![p] = "idle"]
    /\ child' = [child EXCEPT ![p] = NoChild]
    /\ out' = [out EXCEPT ![p] = <<>>]
    /\ totals' = [totals EXCEPT ![p] = <<>>]
    /\ alloc' = [alloc EXCEPT ![p] = <<>>]
    /\ cm' = [cm EXCEPT ![p] = <<>>]
    /\ sent' = [sent EXCEPT ![p] = EmptyBag]
    /\ execs' = [execs EXCEPT ![p] = NoExecs]
    /\ UNCHANGED alive

\* Concurrent scrapes: any collector takes any step; the commands print one
\* of the sample outputs or fail.
Next ==
    \E p \in Collectors :
        \/ Collect(p)
        \/ ExecuteStart(p)
        \/ ExecuteStartFails(p)
        \/ ExecuteWaitFails(p)
        \/ ParseTotalGPUsReturns(p, SinfoSampleRuns)
        \/ ParseAllocatedGPUsCalled(p)
        \/ ParseGPUsMetricsReturns(p, SqueueSampleRuns)
        \/ CollectEmits(p)
        \/ CollectReturns(p)

Spec == Init /\ [][Next]_vars

\* One scrape after another, the commands succeeding and printing any
\* output of the catalogs within the bound.
NextParse ==
    \/ Collect(1)
    \/ ExecuteStart(1)
    \/ ParseTotalGPUsReturns(1, SinfoRuns)
    \/ ParseAllocatedGPUsCalled(1)
    \/ ParseGPUsMetricsReturns(1, SqueueRuns)
    \/ CollectEmits(1)
    \/ CollectReturns(1)

SpecParse == Init /\ [][NextParse]_vars

(***************************************************************************)
(* What an output says, read off the catalog and not off the text.         *)
(***************************************************************************)
RECURSIVE Flatten(_)
Flatten(lines) == IF lines = <<>> THEN <<>> ELSE Head(lines) \o Flatten(Tail(lines))

\* The catalog entries of the tokens of a child's output, in order.
Entries(catalog, c) ==
    LET toks == Flatten(c.lines) IN [i \in 1..Len(toks) |-> catalog[toks[i]]]

RECURSIVE SumCounts(_, _, _)
SumCounts(entries, kinds, type) ==
    IF entries = <<>> THEN Zero
    ELSE LET e == Head(entries)
             rest == SumCounts(Tail(entries), kinds, type)
         IN  IF e.kind \in kinds /\ e.type = type THEN FAdd(e.count, rest) ELSE rest

Descriptors == {"typed", "malformed"}

\* The GPU types the output's descriptors name.
TypesIn(catalog, c) ==
    LET es == Entries(catalog, c)
    IN  {es[i].type : i \in {j \in 1..Len(es) : es[j].kind \in Descriptors}}

\* The map from each type the output names to the sum of its counts.
SumsIn(catalog, c) ==
    [t \in TypesIn(catalog, c) |-> SumCounts(Entries(catalog, c), Descriptors, t)]

HasKind(catalog, c, kind) ==
    LET es == Entries(catalog, c) IN \E i \in 1..Len(es) : es[i].kind = kind

\* A node line of sinfo that holds the name alone.
HasBareLine(c) == \E i \in 1..Len(c.lines) : c.lines[i] = <<>>

\* The command whose output the call has last read.
LastRead(p) == IF execs[p]["squeue"] = 1 THEN "squeue" ELSE "sinfo"
CatalogOf(cmd) == IF cmd = "sinfo" THEN SinfoCatalog ELSE SqueueCatalog

(***************************************************************************)
(* The claims                                                              *)
(***************************************************************************)
\* The value of the metric of desc d and type t among the sent metrics.
SentValue(p, d, t) ==
    (CHOOSE o \in BagToSet(sent[p]) : o.desc = d /\ o.type = t).value

SentTypes(p) == {o.type : o \in BagToSet(sent[p])}

\* C1: every record ParseGPUsMetrics returns has idle = total - alloc, total
\* the inventory sum and alloc the allocation sum of its type (0 when the
\* allocation query does not name the type), and so has every type Collect
\* emits.
C1_IdleIsTotalMinusAlloc ==
    \A p \in Collectors :
        /\ pc[p] = "emit" =>
              \A t \in DOMAIN cm[p] :
                  /\ cm[p][t].total = totals[p][t]
                  /\ cm[p][t].alloc = MapGet(SumsIn(SqueueCatalog, child[p]), t)
                  /\ cm[p][t].idle = FSub(cm[p][t].total, cm[p][t].alloc)
        /\ pc[p] = "done" =>
              \A t \in SentTypes(p) :
                  SentValue(p, Descs[2], t)
                      = FSub(SentValue(p, Descs[3], t), SentValue(p, Descs[1], t))

\* C1 witness: a record with a non-zero alloc and a non-zero idle.
C1_Witness ==
    /\ pc[1] = "emit"
    /\ \E t \in DOMAIN cm[1] : cm[1][t].alloc = Fin(2) /\ cm[1][t].idle = Fin(2)

\* C2: the types of the output of ParseGPUsMetrics are the keys of the
\* inventory map: a type only the allocation query names is not in the
\* output, a type only the inventory query names is in it with alloc = 0 and
\* its inventory count as total.
C2_KeysAreInventoryKeys ==
    \A p \in Collectors :
        pc[p] = "emit" =>
            /\ DOMAIN cm[p] = DOMAIN totals[p]
            /\ \A t \in TypesIn(SqueueCatalog, child[p]) \ DOMAIN totals[p] :
                   t \notin DOMAIN cm[p]
            /\ \A t \in DOMAIN totals[p] \ TypesIn(SqueueCatalog, child[p]) :
                   /\ t \in DOMAIN cm[p]
                   /\ cm[p][t].alloc = Zero
                   /\ cm[p][t].total = totals[p][t]

\* C2 witness: k80 is allocated and not in the inventory, a100 is in the
\* inventory and not allocated.
C2_Witness ==
    /\ pc[1] = "emit"
    /\ DOMAIN totals[1] = {A100}
    /\ totals[1][A100] = Fin(4)
    /\ DOMAIN alloc[1] = {K80}

\* C3: every emitted type with total > 0 has utilization >= 0 and equal to
\* alloc / total, and utilization is non-finite exactly when total = 0,
\* whatever counts the parsers produce.
C3_UtilizationNonNegative ==
    \A p \in Collectors :
        pc[p] = "emit" =>
            \A t \in DOMAIN cm[p] :
                /\ FGt(cm[p][t].total, Zero) =>
                      /\ FGeq(cm[p][t].utilization, Zero)
                      /\ cm[p][t].utilization = FDiv(cm[p][t].alloc, cm[p][t].total)
                /\ ~IsFinite(cm[p][t].utilization) <=> cm[p][t].total = Zero

\* C4: an empty output of either command gives the parser's empty map, and
\* no error.
C4_EmptyOutputEmptyMap ==
    \A p \in Collectors :
        /\ (pc[p] = "totals" /\ out[p] = <<>>) => DOMAIN totals[p] = {}
        /\ (pc[p] = "emit" /\ out[p] = <<>>) => DOMAIN alloc[p] = {}
        /\ pc[p] = "panic" => out[p] # <<>>

\* C4 witness: sinfo has printed nothing and ParseTotalGPUs has returned.
C4_Witness == pc[1] = "totals" /\ out[1] = <<>>

\* C5: the map of each parser holds, for each type, the sum of the counts of
\* all descriptors of that type over all lines and tokens of the output; a
\* token without the prefix adds nothing and makes no key.
C5_SumsOverLinesAndTokens ==
    \A p \in Collectors :
        /\ pc[p] = "totals" => totals[p] = SumsIn(SinfoCatalog, child[p])
        /\ pc[p] = "emit" => alloc[p] = SumsIn(SqueueCatalog, child[p])

\* C5 witness: two nodes with gpu:k80:2 each give 4.
C5_Witness ==
    /\ pc[1] = "totals"
    /\ child[1].lines = << <<2>>, <<2>> >>
    /\ totals[1][K80] = Fin(4)

\* C6: a descriptor whose count is not a number adds zero to the total of
\* its type and is no error: the parser goes on, and every total is the sum
\* of the counts of the other descriptors.
C6_MalformedCountIsZero ==
    \A p \in Collectors :
        LET cat == CatalogOf(LastRead(p))
            c == child[p]
            m == IF LastRead(p) = "sinfo" THEN totals[p] ELSE alloc[p]
        IN  /\ (pc[p] \in {"totals", "emit"} /\ HasKind(cat, c, "malformed")) =>
                  /\ DOMAIN m = TypesIn(cat, c)
                  /\ \A t \in DOMAIN m : m[t] = SumCounts(Entries(cat, c), {"typed"}, t)
            /\ pc[p] = "panic" =>
                  \/ HasKind(cat, c, "short")
                  \/ LastRead(p) = "sinfo" /\ HasBareLine(c)

\* C6 witness: gres/gpu:a100=2 and gres/gpu:a100=xyz give 2.
C6_Witness ==
    /\ pc[1] = "emit"
    /\ child[1].lines = << <<4>>, <<1>> >>
    /\ alloc[1][A100] = Fin(2)

\* C7: a Collect call starts each of the two commands once, sends nothing
\* before both have exited, and then sends, for each type of its snapshot,
\* one metric of each of the four descriptors, labeled with the type, and
\* nothing else; nothing when the snapshot is empty.
C7_FourMetricsPerType ==
    \A p \in Collectors :
        /\ \A c \in Commands : execs[p][c] <= 1
        /\ pc[p] \in {"emit", "done"} => \A c \in Commands : execs[p][c] = 1
        /\ pc[p] # "done" => sent[p] = EmptyBag
        /\ pc[p] = "done" =>
              /\ BagCardinality(sent[p]) = 4 * Cardinality(DOMAIN cm[p])
              /\ SentTypes(p) = DOMAIN cm[p]
              /\ \A t \in DOMAIN cm[p] :
                    /\ \A i \in 1..4 :
                          \E v \in {cm[p][t].alloc, cm[p][t].idle, cm[p][t].total,
                                    cm[p][t].utilization} :
                              CopiesIn([desc |-> Descs[i], value |-> v, type |-> t],
                                       sent[p]) = 1
                    /\ SentValue(p, Descs[1], t) = cm[p][t].alloc
                    /\ SentValue(p, Descs[2], t) = cm[p][t].idle
                    /\ SentValue(p, Descs[3], t) = cm[p][t].total
                    /\ SentValue(p, Descs[4], t) = cm[p][t].utilization

\* C7 witness: a call has sent the four metrics of a snapshot of one type.
C7_Witness ==
    \E p \in Collectors :
        /\ pc[p] = "done"
        /\ Cardinality(DOMAIN cm[p]) = 1
        /\ BagCardinality(sent[p]) = 4

\* C8: when a command fails, the process ends: the call has sent nothing,
\* has not started squeue when sinfo failed, and no step follows.
C8_FatalEndsTheService ==
    [][/\ \A p \in Collectors : pc[p] # "fatal"
       /\ \A p \in Collectors :
             pc'[p] = "fatal" =>
                 /\ ~alive'
                 /\ sent'[p] = EmptyBag
                 /\ CommandAt(pc[p]) = "sinfo" => execs'[p]["squeue"] = 0]_vars

\* C8 witness: sinfo ran and failed; squeue was not started.
C8_Witness ==
    \E p \in Collectors :
        /\ pc[p] = "fatal"
        /\ execs[p] = [c \in Commands |-> IF c = "sinfo" THEN 1 ELSE 0]

\* What a call holds comes from the outputs it has read itself.
CallLocal(p) ==
    /\ pc[p] \in {"idle", "sinfo", "sinfo_wait"} =>
          totals[p] = <<>> /\ alloc[p] = <<>> /\ cm[p] = <<>>
    /\ pc[p] = "totals" => totals[p] = SumsIn(SinfoCatalog, child[p])
    /\ pc[p] = "emit" =>
          /\ alloc[p] = SumsIn(SqueueCatalog, child[p])
          /\ DOMAIN cm[p] = DOMAIN totals[p]
          /\ \A t \in DOMAIN cm[p] :
                cm[p][t].total = totals[p][t] /\ cm[p][t].alloc = MapGet(alloc[p], t)
    /\ pc[p] = "done" =>
          \A o \in BagToSet(sent[p]) :
              /\ o.type \in DOMAIN cm[p]
              /\ o.value \in {cm[p][o.type].alloc, cm[p][o.type].idle,
                              cm[p][o.type].total, cm[p][o.type].utilization}

\* What a call holds changes only by the call's own steps.
KeptAcrossSteps(p) ==
    /\ (pc[p] \in {"totals", "squeue", "squeue_wait"} /\ pc'[p] \notin {"fatal", "panic"})
          => totals'[p] = totals[p]
    /\ pc[p] = "emit" => cm'[p] = cm[p]
    /\ pc'[p] = pc[p] =>
          /\ totals'[p] = totals[p] /\ alloc'[p] = alloc[p]
          /\ cm'[p] = cm[p] /\ sent'[p] = sent[p]

\* C9: what a call holds and sends comes from the two outputs it has read
\* itself, whatever the other calls do meanwhile: its maps are the sums of
\* its own outputs, its metrics those of its own maps, and no step of
\* another call changes them.
C9_MapsAreCallLocal ==
    /\ [](\A p \in Collectors : CallLocal(p))
    /\ [][\A p \in Collectors : KeptAcrossSteps(p)]_vars

\* C9 witness: two calls overlap and hold different snapshots.
C9_Witness ==
    /\ pc[1] = "done"
    /\ pc[2] = "emit"
    /\ DOMAIN cm[1] = {A100}
    /\ DOMAIN cm[2] = {K80}

\* C10: a poll whose commands have succeeded completes and sends metrics,
\* whatever the lines of the outputs: no parse anomaly ends it.
C10_PollCompletes == \A p \in Collectors : pc[p] # "panic"

=============================================================================
